---- MODULE Spec2Model ----
(***************************************************************************)
(* Model of klippy/extras/powercore.py: the PowerCore feedrate governor.   *)
(*                                                                         *)
(* Numbers are fixed point.  Duty cycles, PID terms and the PID output are *)
(* in thousandths (One = 1.0), the resolution round(x, 3) leaves.  The raw *)
(* sampler estimate is in ten-thousandths so that rounding is not the      *)
(* identity.  Feedrates are in thousandths of mm/min, velocities in        *)
(* thousandths of mm/s, time in whole seconds.  Gains are whole numbers.   *)
(***************************************************************************)
EXTENDS Integers, Sequences, FiniteSets, TLC

\* ------------------------------------------------------------------ bounds

\* The reactor's monotonic clock runs from 0 to MaxTime.
MaxTime == 4

\* The clock's range when the handlers are followed statement by statement.
MaxRunningTime == 3

\* ------------------------------------------------------------ number model

\* 1.0 in thousandths: the three decimals of round(x, 3).
One == 1000

\* 1.0 in the sampler's raw resolution, one decimal finer than One.
RawOne == 10 * One

\* simple_pid replaces dt = 0 by 1e-16 s.  Dividing by it is modelled as a
\* multiplication large enough that any non-zero quotient saturates the output.
TinyDtInv == 10 * One

\* simple_pid._clamp(value, (lower, upper))
Clamp(value, lower, upper) ==
    IF value > upper THEN upper
    ELSE IF value < lower THEN lower
    ELSE value

\* round(x, 3) done by always moving to the next thousandth
Round3_up(raw) == raw \div 10 + 1

\* Python's round(x, 3) of a raw value in ten-thousandths, giving thousandths;
\* an exact tie goes to the even neighbour.
Round3(raw) ==
    LET q == raw \div 10
        r == raw % 10
    IN  IF r > 5 THEN q + 1
        ELSE IF r < 5 THEN q
        ELSE IF q % 2 = 0 THEN q ELSE q + 1

\* --------------------------------------------------------------- the config

\* output_limits=(0, 1) of the PID construction
OutputLow == 0

OutputHigh == One

\* The gain triples <<kp, ki, kd>> the configuration is drawn from.
GainChoices ==
    { <<1, 0, 0>>, <<2, 1, 1>>, <<-1, -1, 0>> }

\* <<min_feedrate, max_feedrate>> in thousandths of mm/min; the first is the
\* default 0.1 .. 64.0
FeedrateChoices ==
    { <<100, 64000>>, <<64000, 100>>, <<100, 100>>, <<-100, 64000>>, <<100, -64000>> }

\* target_duty_cycle in thousandths; 0.75 is the default
TargetChoices == { 750, 1500, -250 }

\* powercore_adjustment_accel
AccelChoices == { 500, 0 }

\* alrt_pwm_frequency in Hz
FrequencyChoices == { 100, 0 }

Configs ==
    { [ target_duty_cycle |-> t,
        min_feedrate |-> f[1],
        max_feedrate |-> f[2],
        powercore_adjustment_accel |-> a,
        kp |-> g[1], ki |-> g[2], kd |-> g[3],
        alrt_pwm_frequency |-> hz ] :
        t \in TargetChoices, f \in FeedrateChoices, a \in AccelChoices,
        g \in GainChoices, hz \in FrequencyChoices }

\* PowerCorePWMReader.__init__: the range checks of its config reads.
PWMReaderConfigAccepted(config) ==
    config.alrt_pwm_frequency > 0

\* PowerCore.__init__: the range checks of its config reads (getfloat's
\* minval, maxval and above); a failed check raises and nothing is built.
ConfigAccepted(config) ==
    /\ PWMReaderConfigAccepted(config)
    /\ config.target_duty_cycle >= 0
    /\ config.target_duty_cycle <= One
    /\ config.min_feedrate >= 0
    /\ config.max_feedrate >= 0
    /\ config.powercore_adjustment_accel > 0

\* ---------------------------------------------------------------- the state

VARIABLES
    config,           \* the configuration handed to load_config
    constructed,      \* TRUE when PowerCore(config) returned an object
    now,              \* reactor.monotonic()
    scaling_enabled,  \* PowerCore.scaling_enabled
    pid,              \* the simple_pid.PID object's fields
    sampler,          \* the PWMIn edge decoder behind _pwm_reader
    last_call,        \* what the call made at the current clock reading did
    running           \* where each calling context stands inside its handler

vars == <<config, constructed, now, scaling_enabled, pid, sampler, last_call, running>>

\* ------------------------------------------------------- simple_pid.PID

\* PID(...): the constructor ends in reset(), so a new controller remembers
\* the time it was built at and has no previous input or output.
PIDNew(t) ==
    [ proportional |-> 0,
      integral |-> Clamp(0, OutputLow, OutputHigh),
      derivative |-> 0,
      last_time |-> t,
      last_input |-> <<>>,
      last_output |-> <<>> ]

\* a reset that restarts the time base and forgets the previous input, but
\* keeps the accumulated integral
PIDReset_keeps_integral(p, t) ==
    [ p EXCEPT !.proportional = 0,
               !.derivative = 0,
               !.last_time = t,
               !.last_input = <<>>,
               !.last_output = <<>> ]

\* PID.reset(): clears the three terms and the previous input and output,
\* and restarts the time base at the reset time.
PIDReset(p, t) ==
    [ p EXCEPT !.proportional = 0,
               !.integral = Clamp(0, OutputLow, OutputHigh),
               !.derivative = 0,
               !.last_time = t,
               !.last_input = <<>>,
               !.last_output = <<>> ]

\* value * dt, where dt = 0 stands for simple_pid's 1e-16 s: the product is
\* below the resolution
TimesDt(value, dt) == IF dt = 0 THEN 0 ELSE value * dt

\* value / dt, where dt = 0 stands for simple_pid's 1e-16 s
OverDt(value, dt) == IF dt = 0 THEN value * TinyDtInv ELSE value \div dt

\* a step that stores and returns the sum of the terms without the final clamp
PIDCall_unclamped(p, cfg, input, t) ==
    LET dt == t - p.last_time
        error == cfg.target_duty_cycle - input
        d_input == input - (IF p.last_input = <<>> THEN input ELSE p.last_input[1])
        proportional == cfg.kp * error
        integral == Clamp(p.integral + TimesDt(cfg.ki * error, dt), OutputLow, OutputHigh)
        derivative == OverDt(-(cfg.kd * d_input), dt)
    IN  [ proportional |-> proportional,
          integral |-> integral,
          derivative |-> derivative,
          last_time |-> t,
          last_input |-> <<input>>,
          last_output |-> <<proportional + integral + derivative>> ]

\* a step that accumulates the integral without clamping it
PIDCall_integral_unclamped(p, cfg, input, t) ==
    LET dt == t - p.last_time
        error == cfg.target_duty_cycle - input
        d_input == input - (IF p.last_input = <<>> THEN input ELSE p.last_input[1])
        proportional == cfg.kp * error
        integral == p.integral + TimesDt(cfg.ki * error, dt)
        derivative == OverDt(-(cfg.kd * d_input), dt)
        output == Clamp(proportional + integral + derivative, OutputLow, OutputHigh)
    IN  [ proportional |-> proportional,
          integral |-> integral,
          derivative |-> derivative,
          last_time |-> t,
          last_input |-> <<input>>,
          last_output |-> <<output>> ]

\* PID.__call__(input_) at time t with sample_time=None, proportional on
\* error and differential on measurement (the defaults).
PIDCall(p, cfg, input, t) ==
    LET dt == t - p.last_time
        error == cfg.target_duty_cycle - input
        d_input == input - (IF p.last_input = <<>> THEN input ELSE p.last_input[1])
        proportional == cfg.kp * error
        integral == Clamp(p.integral + TimesDt(cfg.ki * error, dt), OutputLow, OutputHigh)
        derivative == OverDt(-(cfg.kd * d_input), dt)
        output == Clamp(proportional + integral + derivative, OutputLow, OutputHigh)
    IN  [ proportional |-> proportional,
          integral |-> integral,
          derivative |-> derivative,
          last_time |-> t,
          last_input |-> <<input>>,
          last_output |-> <<output>> ]

\* ------------------------------------------------------- the edge decoder

\* PWMIn: nothing decoded yet, the line low.
SamplerNew ==
    [ level |-> FALSE, synced |-> FALSE, last_ts |-> 0, high_time |-> 0,
      estimate |-> 0, published |-> FALSE ]

\* record_edge(timestamp, level).  An edge that repeats the current level is
\* no transition and is ignored.  A falling edge ends the high time.  A rising
\* edge ends the low time and is the period boundary: once a first rising edge
\* has been seen, a period of non-zero length publishes
\* high / (high + low), clamped to [0, 1].
RecordEdgeResult(s, ts, level) ==
    LET dt == ts - s.last_ts
        total == s.high_time + dt
        full == s.synced /\ total > 0
    IN  IF level = s.level THEN s
        ELSE IF ~level
        THEN [ s EXCEPT !.level = FALSE, !.last_ts = ts, !.high_time = dt ]
        ELSE [ level |-> TRUE,
               synced |-> TRUE,
               last_ts |-> ts,
               high_time |-> 0,
               estimate |-> IF full
                            THEN Clamp((s.high_time * RawOne) \div total, 0, RawOne)
                            ELSE s.estimate,
               published |-> s.published \/ full ]

\* PWMIn.get_duty_cycle(): the published estimate
get_duty_cycle == sampler.estimate

\* a reader that reports 0 once the last edge is more than a second old
get_current_duty_cycle_timeout ==
    IF now - sampler.last_ts > 1 THEN 0 ELSE Round3(get_duty_cycle)

\* PowerCorePWMReader.get_current_duty_cycle()
get_current_duty_cycle == Round3(get_duty_cycle)

\* ------------------------------------------------------------- the calls

NoCall ==
    [ op |-> "none", was_enabled |-> TRUE, first_step |-> FALSE,
      time_before |-> 0, integral_before |-> 0, set_speed |-> <<>>,
      duty_reads |-> 0, duty |-> 0, output |-> 0, feedrate |-> 0,
      response |-> "none" ]

\* What a call records: the operation, and the governor as the call found it.
Call(op) ==
    [ NoCall EXCEPT !.op = op,
                    !.was_enabled = scaling_enabled,
                    !.first_step = (pid.last_input = <<>>),
                    !.time_before = pid.last_time,
                    !.integral_before = pid.integral ]

\* Neither context is inside a handler.  move and cmd are the positions of the
\* planning and the command-dispatch context, step holds the locals of a
\* controller step under way; the last three fields are history: whether the
\* enable_scaling under way began on a disabled governor with no check_move
\* under way, whether no step has begun since such a call set the flag, and
\* whether the step under way is that first step with no further
\* enable_scaling begun since.
Idle ==
    [ move |-> "idle", cmd |-> "idle", step |-> <<>>,
      from_disabled |-> FALSE, fresh |-> FALSE, stepped_fresh |-> FALSE ]

Init ==
    /\ running = Idle
    /\ config \in Configs
    /\ constructed = ConfigAccepted(config)
    /\ now = 0
    /\ scaling_enabled = TRUE
    /\ pid = PIDNew(0)
    /\ sampler = SamplerNew
    /\ last_call = NoCall

\* The reactor's clock advances; the record of the last call is dropped.
Tick ==
    /\ constructed
    /\ now < MaxTime
    /\ now' = now + 1
    /\ last_call' = NoCall
    /\ UNCHANGED <<running, config, constructed, scaling_enabled, pid, sampler>>

\* The signal-capture context delivers an edge stamped with the current time;
\* a repeated level is a bounce, a skipped one a dropped edge.
record_edge(level) ==
    /\ constructed
    /\ sampler' = RecordEdgeResult(sampler, now, level)
    /\ UNCHANGED <<running, config, constructed, now, scaling_enabled, pid, last_call>>

\* GET_DUTY_CYCLE
cmd_get_duty_cycle ==
    /\ constructed
    /\ last_call' = [ Call("get_duty_cycle") EXCEPT
                        !.duty_reads = 1,
                        !.duty = get_current_duty_cycle,
                        !.response = "duty_cycle" ]
    /\ UNCHANGED <<running, config, constructed, now, scaling_enabled, pid, sampler>>

\* enabling that sets the flag and leaves the controller as it is
enable_scaling_no_reset ==
    /\ scaling_enabled' = TRUE
    /\ UNCHANGED pid

\* enabling that resets the controller only when the governor was disabled
enable_scaling_only_when_disabled ==
    /\ pid' = IF scaling_enabled THEN pid ELSE PIDReset(pid, now)
    /\ scaling_enabled' = TRUE

\* PowerCore.enable_scaling()
enable_scaling ==
    /\ pid' = PIDReset(pid, now)
    /\ scaling_enabled' = TRUE

\* ENABLE_POWERCORE_FEED_SCALING
cmd_enable_scaling ==
    /\ constructed
    /\ enable_scaling
    /\ last_call' = [ Call("enable_scaling") EXCEPT !.response = "enabled" ]
    /\ UNCHANGED <<running, config, constructed, now, sampler>>

\* disabling written as a toggle of the flag
disable_scaling_toggles ==
    /\ scaling_enabled' = ~scaling_enabled
    /\ UNCHANGED pid

\* disabling that also resets the controller
disable_scaling_resets ==
    /\ scaling_enabled' = FALSE
    /\ pid' = PIDReset(pid, now)

\* PowerCore.disable_scaling()
disable_scaling ==
    /\ scaling_enabled' = FALSE
    /\ UNCHANGED pid

\* DISABLE_POWERCORE_FEED_SCALING
cmd_disable_scaling ==
    /\ constructed
    /\ disable_scaling
    /\ last_call' = [ Call("disable_scaling") EXCEPT !.response = "disabled" ]
    /\ UNCHANGED <<running, config, constructed, now, sampler>>

\* the linear map run from the wrong end of the band
Feedrate_inverted(cfg, output) ==
    cfg.max_feedrate - (output * (cfg.max_feedrate - cfg.min_feedrate)) \div One

\* feedrate = min_feedrate + output * (max_feedrate - min_feedrate)
Feedrate(cfg, output) ==
    cfg.min_feedrate + (output * (cfg.max_feedrate - cfg.min_feedrate)) \div One

\* The velocity scale_move hands to move.set_speed
SetSpeedVelocity(feedrate) == feedrate * 60

\* PowerCore.scale_move(move)
scale_move ==
    LET current_duty_cycle == get_current_duty_cycle
        stepped == PIDCall(pid, config, current_duty_cycle, now)
        output == stepped.last_output[1]
        feedrate == Feedrate(config, output)
    IN  /\ pid' = stepped
        /\ last_call' = [ Call("check_move") EXCEPT
                            !.duty_reads = 1,
                            !.duty = current_duty_cycle,
                            !.output = output,
                            !.feedrate = feedrate,
                            !.set_speed = << [ velocity |-> SetSpeedVelocity(feedrate),
                                               accel |-> config.powercore_adjustment_accel ] >>,
                            !.response = "status" ]

\* a check_move that scales the move whatever the flag says
check_move_ignores_flag ==
    /\ constructed
    /\ scale_move
    /\ UNCHANGED <<running, config, constructed, now, scaling_enabled, sampler>>

\* a check_move that keeps stepping the controller while disabled and only
\* leaves the move alone
check_move_steps_when_disabled ==
    /\ constructed
    /\ IF ~scaling_enabled
       THEN /\ last_call' = Call("check_move")
            /\ pid' = PIDCall(pid, config, get_current_duty_cycle, now)
       ELSE scale_move
    /\ UNCHANGED <<running, config, constructed, now, scaling_enabled, sampler>>

\* PowerCore.check_move(move)
check_move ==
    /\ constructed
    /\ IF ~scaling_enabled
       THEN /\ last_call' = Call("check_move")
            /\ UNCHANGED pid
       ELSE scale_move
    /\ UNCHANGED <<running, config, constructed, now, scaling_enabled, sampler>>

Next ==
    \/ Tick
    \/ \E level \in BOOLEAN : record_edge(level)
    \/ cmd_get_duty_cycle
    \/ cmd_enable_scaling
    \/ cmd_disable_scaling
    \/ check_move

Spec == Init /\ [][Next]_vars

\* ------------------------------------------- the handlers statement by statement

\* PID.reset(), first half: the three terms are zeroed.
PIDResetTerms(p) ==
    [ p EXCEPT !.proportional = 0,
               !.integral = Clamp(0, OutputLow, OutputHigh),
               !.derivative = 0 ]

\* PID.reset(), second half: the time base restarts at t and the previous
\* output and input are forgotten.
PIDResetMemory(p, t) ==
    [ p EXCEPT !.last_time = t,
               !.last_output = <<>>,
               !.last_input = <<>> ]

\* PID.__call__, first half: the three terms are computed from the controller
\* as it is and stored; the previous input, output and time are still the old.
PIDCallTerms(p, cfg, input, t) ==
    [ PIDCall(p, cfg, input, t) EXCEPT !.last_time = p.last_time,
                                       !.last_input = p.last_input,
                                       !.last_output = p.last_output ]

\* PID.__call__, second half: the output, the input and the time of the step
\* are remembered.
PIDCallMemory(p, step) ==
    [ p EXCEPT !.last_output = <<step.output>>,
               !.last_input = <<step.input>>,
               !.last_time = step.t ]

\* The positions at which a context is inside a handler.
InHandler == { "scale", "in_step", "in_reset", "reset_done" }

\* a handler that gives the reactor up between the two halves of a step
Yields_in_step(pc) == pc = "in_step"

\* The positions at which a handler hands control back to the reactor before
\* it returns: enable_scaling, disable_scaling, check_move and scale_move
\* contain no pause, wait or callback registration, so there is none.
Yields(pc) == pc \in {}

\* The reactor runs one handler at a time: a context may run when the other
\* is not inside a handler, or is suspended in it.
CanRun(ctx) ==
    LET other == IF ctx = "move" THEN running.cmd ELSE running.move
    IN  other \notin InHandler \/ Yields(other)

\* The planning context calls check_move(move).
on_move_called ==
    /\ constructed
    /\ running.move = "idle"
    /\ running' = [ running EXCEPT !.move = "called" ]
    /\ UNCHANGED <<config, constructed, now, scaling_enabled, pid, sampler, last_call>>

\* The command-dispatch context calls enable_scaling or disable_scaling.
command_called(op) ==
    /\ constructed
    /\ running.cmd = "idle"
    /\ running' = [ running EXCEPT !.cmd = op ]
    /\ UNCHANGED <<config, constructed, now, scaling_enabled, pid, sampler, last_call>>

\* check_move: the test of the flag, and the return when it is false.
check_move_test ==
    /\ running.move = "called"
    /\ running' = [ running EXCEPT !.move = IF scaling_enabled THEN "scale" ELSE "idle" ]
    /\ UNCHANGED <<config, constructed, now, scaling_enabled, pid, sampler, last_call>>

\* scale_move: the duty cycle is read and the controller called; the call has
\* stored its three terms.
scale_move_begin ==
    /\ running.move = "scale"
    /\ LET current_duty_cycle == get_current_duty_cycle
       IN  /\ pid' = PIDCallTerms(pid, config, current_duty_cycle, now)
           /\ running' = [ running EXCEPT
                             !.move = "in_step",
                             !.step = << [ input |-> current_duty_cycle,
                                           t |-> now,
                                           output |-> PIDCall(pid, config, current_duty_cycle,
                                                              now).last_output[1] ] >>,
                             !.stepped_fresh = running.fresh,
                             !.fresh = FALSE ]
    /\ UNCHANGED <<config, constructed, now, scaling_enabled, sampler, last_call>>

\* scale_move: the controller call returns, the feedrate is computed, the
\* move's speed set and the status reported.
scale_move_end ==
    /\ running.move = "in_step"
    /\ LET step == running.step[1]
           feedrate == Feedrate(config, step.output)
       IN  /\ pid' = PIDCallMemory(pid, step)
           /\ last_call' = [ NoCall EXCEPT
                               !.op = "check_move",
                               !.duty_reads = 1,
                               !.duty = step.input,
                               !.output = step.output,
                               !.feedrate = feedrate,
                               !.set_speed = << [ velocity |-> SetSpeedVelocity(feedrate),
                                                  accel |-> config.powercore_adjustment_accel ] >>,
                               !.response = "status" ]
    /\ running' = [ running EXCEPT !.move = "idle", !.step = <<>>, !.stepped_fresh = FALSE ]
    /\ UNCHANGED <<config, constructed, now, scaling_enabled, sampler>>

\* enable_scaling whose first statement sets the flag
enable_reset_begin_sets_flag ==
    /\ running.cmd = "called_enable"
    /\ pid' = PIDResetTerms(pid)
    /\ scaling_enabled' = TRUE
    /\ running' = [ running EXCEPT
                      !.cmd = "in_reset",
                      !.from_disabled = ~scaling_enabled /\ running.move \in {"idle", "called"},
                      !.fresh = FALSE,
                      !.stepped_fresh = FALSE ]
    /\ UNCHANGED <<config, constructed, now, sampler, last_call>>

\* enable_scaling: the reset is entered and has zeroed the terms.
enable_reset_begin ==
    /\ running.cmd = "called_enable"
    /\ pid' = PIDResetTerms(pid)
    /\ running' = [ running EXCEPT
                      !.cmd = "in_reset",
                      !.from_disabled = ~scaling_enabled /\ running.move \in {"idle", "called"},
                      !.fresh = FALSE,
                      !.stepped_fresh = FALSE ]
    /\ UNCHANGED <<config, constructed, now, scaling_enabled, sampler, last_call>>

\* enable_scaling: the reset finishes.
enable_reset_end ==
    /\ running.cmd = "in_reset"
    /\ pid' = PIDResetMemory(pid, now)
    /\ running' = [ running EXCEPT !.cmd = "reset_done" ]
    /\ UNCHANGED <<config, constructed, now, scaling_enabled, sampler, last_call>>

\* enable_scaling: the flag is set and the call returns.
enable_set_flag ==
    /\ running.cmd = "reset_done"
    /\ scaling_enabled' = TRUE
    /\ running' = [ running EXCEPT
                      !.cmd = "idle",
                      !.fresh = running.from_disabled,
                      !.from_disabled = FALSE ]
    /\ UNCHANGED <<config, constructed, now, pid, sampler, last_call>>

\* disable_scaling: its one assignment.
disable_set_flag ==
    /\ running.cmd = "called_disable"
    /\ scaling_enabled' = FALSE
    /\ running' = [ running EXCEPT !.cmd = "idle" ]
    /\ UNCHANGED <<config, constructed, now, pid, sampler, last_call>>

\* The reactor's clock advances while handlers may be under way.
TickRunning ==
    /\ now < MaxRunningTime
    /\ Tick

\* The governor of an accepted configuration with the default feedrate band.
InitRunning ==
    /\ Init
    /\ constructed
    /\ config.min_feedrate = 100
    /\ config.max_feedrate = 64000

\* The two contexts as threads: any statement of either may come next.
NextPreempt ==
    \/ TickRunning
    \/ \E level \in BOOLEAN : record_edge(level)
    \/ on_move_called
    \/ \E op \in {"called_enable", "called_disable"} : command_called(op)
    \/ check_move_test
    \/ scale_move_begin
    \/ scale_move_end
    \/ enable_reset_begin
    \/ enable_reset_end
    \/ enable_set_flag
    \/ disable_set_flag

SpecPreempt == InitRunning /\ [][NextPreempt]_vars

\* The two contexts as callbacks of the one reactor.
NextReactor ==
    \/ TickRunning
    \/ \E level \in BOOLEAN : record_edge(level)
    \/ on_move_called
    \/ \E op \in {"called_enable", "called_disable"} : command_called(op)
    \/ CanRun("move") /\ check_move_test
    \/ CanRun("move") /\ scale_move_begin
    \/ CanRun("move") /\ scale_move_end
    \/ CanRun("cmd") /\ enable_reset_begin
    \/ CanRun("cmd") /\ enable_reset_end
    \/ CanRun("cmd") /\ enable_set_flag
    \/ CanRun("cmd") /\ disable_set_flag

SpecReactor == InitRunning /\ [][NextReactor]_vars

\* ------------------------------------------------------------- properties

\* The last call was a check_move that found the governor enabled.
EnabledMove == last_call.op = "check_move" /\ last_call.was_enabled

\* The last call was a check_move that found the governor disabled.
DisabledMove == last_call.op = "check_move" /\ ~last_call.was_enabled

\* C1: a check_move made while scaling_enabled is false makes no set_speed
\* call on the move it was passed.
C1_DisabledMoveMakesNoSetSpeed ==
    DisabledMove => last_call.set_speed = <<>>

\* C1 witness: a disabled check_move on a governor that has scaled moves
\* before and whose sampler has published.
C1_Witness ==
    /\ DisabledMove
    /\ pid.last_input # <<>>
    /\ sampler.published
    /\ last_call.set_speed = <<>>

\* C2 as claimed: every enabled check_move calls set_speed with a velocity
\* whose sixty-fold lies in [min_feedrate, max_feedrate].
C2_VelocityTimes60InBand ==
    EnabledMove =>
        /\ Len(last_call.set_speed) = 1
        /\ last_call.set_speed[1].velocity * 60 >= config.min_feedrate
        /\ last_call.set_speed[1].velocity * 60 <= config.max_feedrate

\* C3: every controller step returns, and stores, an output within the
\* output limits [0, 1].
C3_OutputWithinLimits ==
    /\ EnabledMove =>
        /\ last_call.output >= OutputLow
        /\ last_call.output <= OutputHigh
    /\ pid.last_output # <<>> =>
        /\ pid.last_output[1] >= OutputLow
        /\ pid.last_output[1] <= OutputHigh

\* C3 witness: a step whose terms sum to more than the upper limit, with a
\* derivative term taken over a zero time difference.
C3_Witness ==
    /\ EnabledMove
    /\ now = last_call.time_before
    /\ pid.proportional + pid.integral + pid.derivative > OutputHigh
    /\ pid.derivative # 0
    /\ last_call.output = OutputHigh

\* C4: in the state right after enable_scaling the integral accumulator is 0.
C4_IntegralZeroAfterEnable ==
    last_call.op = "enable_scaling" => pid.integral = 0

\* C4 witness: enable_scaling on a disabled governor whose integral was not 0.
C4_Witness ==
    /\ last_call.op = "enable_scaling"
    /\ ~last_call.was_enabled
    /\ last_call.integral_before # 0
    /\ pid.integral = 0

\* The first step of a controller built at time t, fed input at the current time.
FreshFirstStep(t, input) == PIDCall(PIDNew(t), config, input, now)

\* The last call was an enabled check_move that was the controller's first
\* step since its construction or last reset.
FirstStep == EnabledMove /\ last_call.first_step

C6_Config ==
    /\ config.target_duty_cycle = 750
    /\ config.kp = 1 /\ config.ki = 0 /\ config.kd = 0
    /\ config.min_feedrate = 100
    /\ config.max_feedrate = 64000

\* C6 as claimed: a reading equal to the setpoint gets output 0.5 and
\* feedrate 32.05 mm/min.
C6_ZeroErrorGivesMidpoint ==
    (C6_Config /\ EnabledMove /\ last_call.duty = config.target_duty_cycle) =>
        /\ last_call.output = 500
        /\ last_call.feedrate = 32050

\* C6 amended: a reading equal to the setpoint gets output 0, the lower
\* output limit, and feedrate min_feedrate = 0.1 mm/min.
C6_ZeroErrorGivesLowerLimit ==
    (C6_Config /\ EnabledMove /\ last_call.duty = config.target_duty_cycle) =>
        /\ last_call.output = 0
        /\ last_call.feedrate = 100

\* C6 witness: an enabled check_move in that configuration reading 0.75.
C6_Witness ==
    /\ C6_Config
    /\ EnabledMove
    /\ last_call.duty = 750
    /\ last_call.feedrate = 100

\* C7 as claimed: for every accepted configuration the feedrate of an enabled
\* check_move lies in [min_feedrate, max_feedrate].
C7_FeedrateInBand ==
    (constructed /\ EnabledMove) =>
        /\ last_call.feedrate >= config.min_feedrate
        /\ last_call.feedrate <= config.max_feedrate

\* C8 as claimed: construction fails when max_feedrate < min_feedrate, as it
\* does for a target outside [0, 1], a negative feedrate or a frequency <= 0.
C8_InvalidConfigRefused ==
    ( \/ config.max_feedrate < config.min_feedrate
      \/ config.target_duty_cycle < 0
      \/ config.target_duty_cycle > One
      \/ config.min_feedrate < 0
      \/ config.max_feedrate < 0
      \/ config.alrt_pwm_frequency <= 0 ) => ~constructed

\* C9: after any sequence of edges get_current_duty_cycle is in [0.0, 1.0],
\* and so is every value a call has read from it.
C9_DutyCycleInUnitInterval ==
    /\ get_current_duty_cycle >= 0
    /\ get_current_duty_cycle <= One
    /\ last_call.op \in {"get_duty_cycle", "check_move"} =>
        (last_call.duty >= 0 /\ last_call.duty <= One)

\* C9 witness: GET_DUTY_CYCLE reads 1.0 after a bounce (a fall and a rise
\* with the same time stamp) closed a period that was all high.
C9_Witness ==
    /\ last_call.op = "get_duty_cycle"
    /\ sampler.estimate = RawOne
    /\ last_call.duty = One

\* A step in which the signal-capture context delivers an edge.
EdgeStep == \E level \in BOOLEAN : record_edge(level)

\* A step that reads the duty cycle: GET_DUTY_CYCLE or an enabled check_move.
ReadStep == cmd_get_duty_cycle \/ (scaling_enabled /\ check_move)

\* C10: once an estimate is published, a step that delivers no edge (time
\* passing, check_move, enable, disable, GET_DUTY_CYCLE) leaves the value
\* get_current_duty_cycle returns unchanged, and a read in that step gets it.
C10_EstimateFrozenWithoutEdges ==
    [][ (sampler.published /\ ~EdgeStep) =>
            /\ get_current_duty_cycle' = get_current_duty_cycle
            /\ ReadStep => last_call'.duty = get_current_duty_cycle ]_vars

\* C10 witness: GET_DUTY_CYCLE, made two or more seconds after the last edge and
\* after the controller was stepped and the governor disabled, still reads
\* the non-zero published estimate.
C10_Witness ==
    /\ sampler.published
    /\ last_call.op = "get_duty_cycle"
   
    /\ now - sampler.last_ts >= 2
    /\ pid.last_input # <<>>
    /\ ~scaling_enabled
    /\ sampler.estimate > 0
    /\ last_call.duty = Round3(sampler.estimate)

\* C11: the governor starts enabled; enable_scaling leaves the flag true,
\* disable_scaling leaves it false, and no other step (check_move,
\* GET_DUTY_CYCLE, an edge, time passing) changes it, so the flag is true
\* exactly when the last enable/disable call was an enable, or none was made.
C11_FlagFollowsLastToggle ==
    /\ scaling_enabled = TRUE
    /\ [][ /\ cmd_enable_scaling => scaling_enabled'
           /\ cmd_disable_scaling => ~scaling_enabled'
           /\ (~cmd_enable_scaling /\ ~cmd_disable_scaling) =>
                  scaling_enabled' = scaling_enabled ]_vars

\* C11 witness: the flag is true again right after an enable_scaling that
\* found the governor disabled, with the controller stepped at an earlier time.
C11_Witness ==
    /\ last_call.op = "enable_scaling"
    /\ ~last_call.was_enabled
    /\ ~last_call.first_step
    /\ last_call.time_before < now
    /\ scaling_enabled

\* C12: disable_scaling changes the flag and nothing else: the controller
\* (integral, previous input, previous time, terms), the configuration (gains,
\* setpoint, limits), the sampler and the clock are as before the call.
C12_DisableChangesOnlyFlag ==
    [][ cmd_disable_scaling =>
            /\ ~scaling_enabled'
            /\ pid' = pid
            /\ config' = config
            /\ sampler' = sampler
            /\ now' = now ]_vars

\* C12 witness: right after disabling a governor whose controller holds a
\* non-zero integral and a previous input, both are still there.
C12_Witness ==
    /\ last_call.op = "disable_scaling"
    /\ last_call.was_enabled
    /\ ~scaling_enabled
    /\ pid.integral # 0
    /\ pid.integral = last_call.integral_before
    /\ pid.last_input # <<>>

\* C13: a check_move made while disabled does not step the controller, does
\* not read or change the sampler estimate, emits no status event, makes no
\* set_speed call and leaves the flag as it is.
C13_DisabledMoveHasNoEffect ==
    [][ (~scaling_enabled /\ check_move) =>
            /\ pid' = pid
            /\ sampler' = sampler
            /\ scaling_enabled' = scaling_enabled
            /\ last_call'.duty_reads = 0
            /\ last_call'.response = "none"
            /\ last_call'.set_speed = <<>> ]_vars

\* C13 witness: a disabled check_move at a time later than the controller's
\* last step, with a published estimate other than the one last stepped on.
C13_Witness ==
    /\ DisabledMove
    /\ pid.last_input # <<>>
    /\ pid.last_time < now
    /\ sampler.published
    /\ pid.last_input[1] # get_current_duty_cycle
    /\ last_call.duty_reads = 0

\* An enabled check_move that is the controller's first step.
FirstStepAction == scaling_enabled /\ check_move /\ pid.last_input = <<>>

\* An enabled check_move at the time of the controller's previous step.
ZeroDtStep ==
    scaling_enabled /\ check_move /\ pid.last_input # <<>> /\ now = pid.last_time

\* C14: a first step, and a step with a zero time difference, return an
\* output, add nothing to the integral and have no derivative term.
C14_NoIntegralNoDerivative ==
    [][ (FirstStepAction \/ ZeroDtStep) =>
            /\ pid'.last_output # <<>>
            /\ pid'.integral = pid.integral
            /\ pid'.derivative = 0 ]_vars

\* C14 witness: a step at the time of the previous step, on a changed input,
\* whose derivative term is not zero and drives the output to a limit.
C14_Witness ==
    /\ EnabledMove
    /\ ~last_call.first_step
    /\ last_call.time_before = now
    /\ pid.derivative # 0
    /\ last_call.output \in {OutputLow, OutputHigh}

\* The sum of the terms of the controller's last step, before the clamp.
RawOutput(p) == p.proportional + p.integral + p.derivative

\* C15 as claimed: on a step whose raw output is clamped the integral does
\* not move further towards the saturated limit, and the integral is bounded.
C15_IntegralFrozenWhenSaturated ==
    [][ (scaling_enabled /\ check_move) =>
            /\ RawOutput(pid') > OutputHigh => pid'.integral <= pid.integral
            /\ RawOutput(pid') < OutputLow => pid'.integral >= pid.integral
            /\ pid'.integral >= OutputLow
            /\ pid'.integral <= OutputHigh ]_vars

\* C15 amended: the integral is clamped to the output limits on every step,
\* saturated or not, so it stays within [0, 1] over any sequence of steps.
C15_IntegralWithinLimits ==
    /\ pid.integral >= OutputLow
    /\ pid.integral <= OutputHigh

\* C15 witness: a step whose raw output is above the upper limit and whose
\* integral still grew, up to the limit where the clamp holds it.
C15_Witness ==
    /\ EnabledMove
    /\ RawOutput(pid) > OutputHigh
    /\ pid.integral > last_call.integral_before
    /\ last_call.integral_before > 0
    /\ pid.integral = OutputHigh

\* C16: an enabled check_move calls set_speed once, with
\* velocity = feedrate / 60 for the feedrate of that call's output, and with
\* the configured acceleration.
C16_VelocityIsFeedrateOver60 ==
    EnabledMove =>
        /\ Len(last_call.set_speed) = 1
        /\ last_call.feedrate = Feedrate(config, last_call.output)
        /\ last_call.set_speed[1].velocity * 60 = last_call.feedrate
        /\ last_call.set_speed[1].accel = config.powercore_adjustment_accel

\* C19: enable_scaling on an enabled governor leaves the flag true and puts
\* the controller in the state of a new one built at that time, whatever it
\* held; called again at once, it changes nothing more.
C19_EnableWhenEnabledResets ==
    [][ (scaling_enabled /\ cmd_enable_scaling) =>
            /\ scaling_enabled'
            /\ pid' = PIDNew(now)
            /\ last_call.op = "enable_scaling" => pid' = pid ]_vars

\* C19 witness: enable_scaling found the governor enabled with a stepped
\* controller holding a non-zero integral, and left it cleared.
C19_Witness ==
    /\ last_call.op = "enable_scaling"
    /\ last_call.was_enabled
    /\ ~last_call.first_step
    /\ last_call.integral_before # 0
    /\ pid = PIDNew(now)

C18_FirstStepAfterEnableOnClearedMemory ==
    /\ (running.cmd \in {"in_reset", "reset_done"} /\ running.from_disabled) =>
           running.move \in {"idle", "called"}
    /\ running.fresh => pid = PIDNew(pid.last_time)
    /\ (running.move = "in_step" /\ running.stepped_fresh) =>
           pid = PIDCallTerms(PIDNew(pid.last_time), config,
                              running.step[1].input, running.step[1].t)

\* C18 witness: the first step after an enable_scaling that began on a
\* disabled governor is under way, some time after the reset, and has
\* integrated from zero.
C18_Witness ==
    /\ running.move = "in_step"
    /\ running.stepped_fresh
    /\ running.step[1].t > pid.last_time
    /\ pid.last_time > 0
    /\ pid.integral # 0

====
